---- MODULE Spec2Model ----
(***************************************************************************)
(* github-stats: one run of main() of index.js and of its earlier variant  *)
(* (src/unnamed/part_000).  A run issues one GraphQL request, filters the  *)
(* returned pull requests by a date window, and prints the report blocks.  *)
(*                                                                         *)
(* Timestamps of a pull request are ISO-8601 strings with second           *)
(* precision; they are held as whole seconds and parse() turns them into   *)
(* milliseconds.  startDate and endDate are millisecond values, as         *)
(* Date.parse yields them.                                                 *)
(***************************************************************************)
EXTENDS Integers, Sequences, FiniteSets, TLC

VARIABLES
    variant,        \* "index" (src/index.js) or "part_000" (src/unnamed/part_000)
    server,         \* merged pull requests of the repository, in the query's order
    startDate,      \* args.startDate, ms
    endDate,        \* args.endDate, ms
    pc,             \* position of main()
    requests,       \* number of client.request calls issued
    responded,      \* the awaited request has settled
    data,           \* data.repository.pullRequests.nodes
    prs,            \* the filtered set
    f,              \* the copy sorted for the Pull requests listing
    authors,        \* the owners object: own properties in creation order
    shortest,       \* <<>> (null) or <<pr>>
    longest,        \* <<>> (null) or <<pr>>
    meanInMs,       \* <<>> or <<total, prs.length>>
    allTimes,       \* the array handed to median (sorted in place by it)
    medianVal,      \* <<>> or <<median(allTimes)>>
    p90,            \* <<>> or <<item of percentileVals>>
    mergeLines,     \* lines buffered by mergeBlock (index.js)
    out,            \* lines written to standard output
    errOut,         \* errors written by console.error
    err,            \* the error main() rejected with, "none" if none
    errAt,          \* the step that raised it
    exitCode        \* <<>> while running, <<status>> once the process has ended

vars == <<variant, server, startDate, endDate, pc, requests, responded, data,
          prs, f, authors, shortest, longest, meanInMs, allTimes, medianVal,
          p90, mergeLines, out, errOut, err, errAt, exitCode>>

inputs == <<variant, server, startDate, endDate>>

(***************************************************************************)
(* Bounds of the explored inputs.                                          *)
(***************************************************************************)
MaxFetch == 3        \* pull requests on the server, date-window runs
MaxAuthLen == 3      \* pull requests on the server, author runs
MaxStatLen == 4      \* pull requests on the server, statistics runs
MaxStatDur == 2      \* longest open duration, seconds, statistics runs
MaxP90Len == 11      \* pull requests on the server, percentile runs
MaxBeyond == 2       \* pull requests the server holds beyond the first page

PageSize == 100      \* pullRequests(first:100, ...)

NoAuthor == "<null>" \* author: null in the response
NaN == 0 - 1         \* the count NaN (counts proper are >= 1)

Variants == {"index", "part_000"}

(***************************************************************************)
(* Helpers of the run.                                                     *)
(***************************************************************************)
\* date-fns parse / new Date(iso): whole seconds of the ISO string to ms
parse(iso) == iso * 1000

isBefore(a, b) == a < b
isAfter(a, b) == a > b

\* new Date(pr.mergedAt) - new Date(pr.createdAt)
OpenTime(pr) == parse(pr.mergedAt) - parse(pr.createdAt)

\* distanceInWordsStrict(from, to, unit) of the date library, partialMethod
\* floor: the count and the unit of the words it yields; unit "auto" lets
\* it choose the unit
distanceInWordsStrict(from, to, unit) ==
    LET seconds == (to - from) \div 1000
        minutes == seconds \div 60
        u == IF unit # "auto" THEN unit
             ELSE IF minutes < 1 THEN "s"
             ELSE IF minutes < 60 THEN "m"
             ELSE IF minutes < 1440 THEN "h"
             ELSE IF minutes < 43200 THEN "d"
             ELSE IF minutes < 525600 THEN "M"
             ELSE "Y"
    IN  CASE u = "s" -> <<seconds, u>>
          [] u = "m" -> <<minutes, u>>
          [] u = "h" -> <<minutes \div 60, u>>
          [] u = "d" -> <<minutes \div 1440, u>>
          [] u = "M" -> <<minutes \div 43200, u>>
          [] OTHER   -> <<minutes \div 525600, u>>

\* format(date, 'YYYY-MM-DD'): the calendar day of the instant
format(date) == date \div 86400000

\* the timestamp the filter looks at
RefTime(v, node) ==
    IF v = "index" THEN parse(node.mergedAt) ELSE parse(node.createdAt)

InWindowInclusive(t, s, e) == ~isAfter(t, e) /\ ~isBefore(t, s)
InWindow(t, s, e) == isBefore(t, e) /\ isAfter(t, s)

\* nodes.filter(node => isBefore(t, endDate) && isAfter(t, startDate))
DateFilter(v, nodes, s, e) ==
    SelectSeq(nodes, LAMBDA node : InWindow(RefTime(v, node), s, e))

\* the first page the server returns for first:100
Page(repo) ==
    IF Len(repo) <= PageSize THEN repo ELSE SubSeq(repo, 1, PageSize)

(***************************************************************************)
(* Array.prototype.sort with a numeric comparator (a - b): ascending and   *)
(* stable.  SortIdx(keys, n) is the order of the indices 1..n.             *)
(***************************************************************************)
\* TRUE; evaluating it evaluates v, so that a fold's left part is computed
\* before its right part is entered
Evaluated(v) == v = v

InsertIdx(p, i, keys) ==
    LET cnt == Cardinality({j \in 1..Len(p) : keys[p[j]] <= keys[i]})
    IN  SubSeq(p, 1, cnt) \o <<i>> \o SubSeq(p, cnt + 1, Len(p))

RECURSIVE SortIdx(_, _, _, _)
\* the indices lo..hi inserted, in turn, into the order p
SortIdx(keys, lo, hi, p) ==
    IF lo > hi THEN p
    ELSE IF lo = hi THEN InsertIdx(p, lo, keys)
    ELSE LET mid == (lo + hi) \div 2
             left == SortIdx(keys, lo, mid, p)
         IN  IF Evaluated(left) THEN SortIdx(keys, mid + 1, hi, left) ELSE left

SortBy(s, keys) ==
    LET p == SortIdx(keys, 1, Len(s), <<>>) IN [i \in 1..Len(s) |-> s[p[i]]]

SortNumbers(values) == SortBy(values, values)

\* prs.map(a => a).sort(by open time): the sorted copy f, prs as it was
DisplaySortInPlace(ps) ==
    LET s == SortBy(ps, [i \in 1..Len(ps) |-> OpenTime(ps[i])])
    IN  [f |-> s, prs |-> s]
DisplaySort(ps) ==
    [f |-> SortBy(ps, [i \in 1..Len(ps) |-> OpenTime(ps[i])]), prs |-> ps]

\* median(values): sorts values in place, returns the middle
medianUnsorted(values) ==
    LET half == Len(values) \div 2
    IN  [values |-> values,
         result |-> IF Len(values) % 2 = 1 THEN values[half + 1]
                    ELSE (values[half] + values[half + 1]) \div 2]
median(values) ==
    LET sorted == SortNumbers(values)
        half == Len(values) \div 2       \* Math.floor(values.length / 2)
    IN  [values |-> sorted,
         \* zero-based values[half] is sorted[half + 1]
         result |-> IF Len(values) % 2 = 1 THEN sorted[half + 1]
                    ELSE (sorted[half] + sorted[half + 1]) \div 2]

(***************************************************************************)
(* The owners object of the author count.  A plain object lists its        *)
(* integer-like keys first, in ascending numeric order, and then its other *)
(* keys in creation order; a key it does not own is looked up on           *)
(* Object.prototype.                                                       *)
(***************************************************************************)
IntegerLike == {"7", "10"}
ToIndex(k) == IF k = "7" THEN 7 ELSE 10
ProtoProps == {"constructor"}

HasOwn(o, k) == \E i \in 1..Len(o) : o[i].key = k
OwnIdx(o, k) == CHOOSE i \in 1..Len(o) : o[i].key = k

\* if (owners[login]) owners[login]++ else owners[login] = 1
CountLogin(o, login) ==
    IF HasOwn(o, login)
    THEN LET i == OwnIdx(o, login)
             v == o[i].value
         IN  IF v # 0 /\ v # NaN
             THEN [o EXCEPT ![i].value = v + 1]
             ELSE [o EXCEPT ![i].value = 1]
    ELSE IF login \in ProtoProps
         THEN Append(o, [key |-> login, value |-> NaN])
         ELSE Append(o, [key |-> login, value |-> 1])

(***************************************************************************)
(* The reduces below are left folds over ps[lo..hi] from the accumulator   *)
(* given: ps[lo], then ps[lo + 1], and so on.  The range is halved only to *)
(* keep the evaluation shallow.                                            *)
(***************************************************************************)
RECURSIVE CountAuthors(_, _, _, _)
\* prs.reduce((owners, pr) => ..., {})
CountAuthors(ps, lo, hi, o) ==
    IF lo > hi THEN o
    ELSE IF lo = hi THEN CountLogin(o, ps[lo].login)
    ELSE LET mid == (lo + hi) \div 2
             left == CountAuthors(ps, lo, mid, o)
         IN  IF Evaluated(left) THEN CountAuthors(ps, mid + 1, hi, left) ELSE left

\* zip(keys(authors), values(authors))
AuthorRows(o) ==
    LET ints == SelectSeq(o, LAMBDA e : e.key \in IntegerLike)
        strs == SelectSeq(o, LAMBDA e : e.key \notin IntegerLike)
    IN  SortBy(ints, [i \in 1..Len(ints) |-> ToIndex(ints[i].key)]) \o strs

(***************************************************************************)
(* Shortest, longest, total, percentile.                                   *)
(***************************************************************************)
\* if (!a) return b; if (bOpenTime < aOpenTime) return b; return a
ShorterOrEqual(a, b) ==
    IF a = <<>> THEN <<b>>
    ELSE IF OpenTime(b) <= OpenTime(a[1]) THEN <<b>> ELSE a
Shorter(a, b) ==
    IF a = <<>> THEN <<b>>
    ELSE IF OpenTime(b) < OpenTime(a[1]) THEN <<b>> ELSE a

\* if (!a) return b; if (bOpenTime > aOpenTime) return b; return a
Longer(a, b) ==
    IF a = <<>> THEN <<b>>
    ELSE IF OpenTime(b) > OpenTime(a[1]) THEN <<b>> ELSE a

RECURSIVE Shortest(_, _, _, _)
\* prs.reduce((a, b) => ..., null)
Shortest(ps, lo, hi, a) ==
    IF lo > hi THEN a
    ELSE IF lo = hi THEN Shorter(a, ps[lo])
    ELSE LET mid == (lo + hi) \div 2
             left == Shortest(ps, lo, mid, a)
         IN  IF Evaluated(left) THEN Shortest(ps, mid + 1, hi, left) ELSE left

RECURSIVE Longest(_, _, _, _)
Longest(ps, lo, hi, a) ==
    IF lo > hi THEN a
    ELSE IF lo = hi THEN Longer(a, ps[lo])
    ELSE LET mid == (lo + hi) \div 2
             left == Longest(ps, lo, mid, a)
         IN  IF Evaluated(left) THEN Longest(ps, mid + 1, hi, left) ELSE left

RECURSIVE Total(_, _, _, _)
\* prs.reduce((a, b) => a + openTime, 0)
Total(ps, lo, hi, a) ==
    IF lo > hi THEN a
    ELSE IF lo = hi THEN a + OpenTime(ps[lo])
    ELSE LET mid == (lo + hi) \div 2
             left == Total(ps, lo, mid, a)
         IN  IF Evaluated(left) THEN Total(ps, mid + 1, hi, left) ELSE left

\* prs.map(pr => openTime)
AllTimes(ps) == [i \in 1..Len(ps) |-> OpenTime(ps[i])]

\* prs.map(pr => ({...pr, openTime}))
percentileValsMergedAt(ps) ==
    [i \in 1..Len(ps) |->
        [number |-> ps[i].number, login |-> ps[i].login,
         createdAt |-> ps[i].createdAt, mergedAt |-> ps[i].mergedAt,
         openTime |-> parse(ps[i].mergedAt)]]
percentileVals(ps) ==
    [i \in 1..Len(ps) |->
        [number |-> ps[i].number, login |-> ps[i].login,
         createdAt |-> ps[i].createdAt, mergedAt |-> ps[i].mergedAt,
         openTime |-> OpenTime(ps[i])]]

\* percentile(p, list, item => item.openTime): nearest rank, the item at
\* zero-based index ceil(length * p / 100) - 1 of the list sorted by openTime
percentile(p, list) ==
    LET sorted == SortBy(list, [i \in 1..Len(list) |-> list[i].openTime])
        kIndex == ((Len(list) * p + 99) \div 100) - 1
    IN  sorted[kIndex + 1]

(***************************************************************************)
(* Inputs: what the server holds, the date window, the variant run.        *)
(***************************************************************************)
\* the pull requests of a shape: sh[i] = <<login, createdAt, open seconds>>
Build(sh) ==
    [i \in DOMAIN sh |->
        [number |-> i, login |-> sh[i][1], createdAt |-> sh[i][2],
         mergedAt |-> sh[i][2] + sh[i][3]]]

Servers(minLen, maxLen, logins, created, durs) ==
    {Build(sh) : sh \in UNION {[1..n -> logins \X created \X durs] :
                                 n \in minLen..maxLen}}

\* date-window runs: timestamps on and around the window's ends
WindowServers == Servers(0, MaxFetch, {"bob", NoAuthor}, 1..2, 0..1)
WindowStarts == {1000, 1500}
WindowEnds == {2000, 3000}

\* author runs: logins that are plain, integer-like, inherited, missing
AuthorServers ==
    Servers(0, MaxAuthLen, {"bob", "al", "7", "10", "constructor", NoAuthor},
            {1}, {1})

\* statistics runs: open durations with ties
StatServers == Servers(0, MaxStatLen, {"bob"}, {1}, 0..MaxStatDur)

\* percentile runs: enough pull requests for rank 90% to leave the maximum
\* behind, and repositories around and beyond the first page
BulkDur(i) == IF i % 20 = 0 THEN 2 ELSE i % 2
BulkServers ==
    Servers(MaxP90Len - 1, MaxP90Len, {"bob"}, {1}, 0..1)
    \cup {Build([i \in 1..n |-> <<"bob", 1, BulkDur(i)>>]) :
             n \in (PageSize - 1)..(PageSize + MaxBeyond)}

WideStart == parse(0)
WideEnd == parse(10)

InitRun ==
    /\ variant \in Variants
    /\ pc = "start"
    /\ requests = 0
    /\ responded = FALSE
    /\ data = <<>>
    /\ prs = <<>>
    /\ f = <<>>
    /\ authors = <<>>
    /\ shortest = <<>>
    /\ longest = <<>>
    /\ meanInMs = <<>>
    /\ allTimes = <<>>
    /\ medianVal = <<>>
    /\ p90 = <<>>
    /\ mergeLines = <<>>
    /\ out = <<>>
    /\ errOut = <<>>
    /\ err = "none"
    /\ errAt = "none"
    /\ exitCode = <<>>

Init ==
    /\ server \in WindowServers
    /\ startDate \in WindowStarts
    /\ endDate \in WindowEnds
    /\ InitRun

InitAuthors ==
    /\ server \in AuthorServers
    /\ startDate = WideStart
    /\ endDate = WideEnd
    /\ InitRun

InitStats ==
    /\ server \in StatServers
    /\ startDate = WideStart
    /\ endDate = WideEnd
    /\ InitRun

InitBulk ==
    /\ server \in BulkServers
    /\ startDate = WideStart
    /\ endDate = WideEnd
    /\ InitRun

(***************************************************************************)
(* Output lines.                                                           *)
(***************************************************************************)
Blank(b) == [block |-> b, kind |-> "blank", label |-> "", value |-> <<>>]
Header(b) == [block |-> b, kind |-> "header", label |-> b, value |-> <<>>]
Row(b, label, value) ==
    [block |-> b, kind |-> "row", label |-> label, value |-> value]

\* logBlock(t).end(): blank, title, the rows, blank
BlockEnd(b, rows) == <<Blank(b), Header(b)>> \o rows \o <<Blank(b)>>

InfoRows ==
    << Row("Info", "Owner", <<"repoOwner">>),
       Row("Info", "Repository name", <<"repoName">>),
       Row("Info", "From", <<format(startDate)>>),
       Row("Info", "To", <<format(endDate)>>),
       Row("Info", "Total", <<Len(prs)>>) >>

\* title, distance in words, (#number); now and now + openTime are openTime apart
ListRows(ps) ==
    [i \in 1..Len(ps) |->
        Row("Pull requests", "title",
            <<distanceInWordsStrict(0, OpenTime(ps[i]), "auto"), ps[i].number>>)]

CountRows(o) ==
    LET rows == AuthorRows(o)
    IN  [i \in 1..Len(rows) |->
            Row("Count by author", rows[i].key, <<rows[i].value>>)]

ExtremeRow(label, pr) ==
    Row("Time to merge", label,
        <<distanceInWordsStrict(parse(pr.createdAt), parse(pr.mergedAt), "auto"),
          pr.number>>)

\* now and fut = now + total / length are Math.trunc(total / length) ms apart
MeanRows(total, n) ==
    << Row("Time to merge", "Mean (days)",
           <<distanceInWordsStrict(0, total \div n, "auto")>>),
       Row("Time to merge", "Mean (hours)",
           <<distanceInWordsStrict(0, total \div n, "h")>>) >>

(***************************************************************************)
(* The steps of main().                                                    *)
(***************************************************************************)
\* the promise main() returned rejects with error e, raised in step at
Throw(e, at) ==
    /\ err' = e
    /\ errAt' = at
    /\ pc' = "catch"

\* const data = await client.request(query, ...): the call
Request ==
    /\ pc = "start"
    /\ requests' = requests + 1
    /\ pc' = "await"
    /\ UNCHANGED <<inputs, responded, data, prs, f, authors, shortest, longest,
                   meanInMs, allTimes, medianVal, p90, mergeLines, out, errOut,
                   err, errAt, exitCode>>

\* the awaited request resolves with the first page
ResponseOk ==
    /\ pc = "await"
    /\ responded' = TRUE
    /\ data' = Page(server)
    /\ pc' = "filter"
    /\ UNCHANGED <<inputs, requests, prs, f, authors, shortest, longest,
                   meanInMs, allTimes, medianVal, p90, mergeLines, out, errOut,
                   err, errAt, exitCode>>

\* a failed request issued again
ResponseFailRetry ==
    /\ pc = "await"
    /\ pc' = "start"
    /\ UNCHANGED <<inputs, requests, responded, data, prs, f, authors, shortest,
                   longest, meanInMs, allTimes, medianVal, p90, mergeLines, out,
                   errOut, err, errAt, exitCode>>

\* the awaited request rejects: the API is unreachable or refuses the token
ResponseFail ==
    /\ pc = "await"
    /\ responded' = TRUE
    /\ \E e \in {"NetworkError", "AuthError"} : Throw(e, "request")
    /\ UNCHANGED <<inputs, requests, data, prs, f, authors, shortest, longest,
                   meanInMs, allTimes, medianVal, p90, mergeLines, out, errOut,
                   exitCode>>

\* const prs = nodes.filter(...)
Filter ==
    /\ pc = "filter"
    /\ prs' = DateFilter(variant, data, startDate, endDate)
    /\ pc' = "info"
    /\ UNCHANGED <<inputs, requests, responded, data, f, authors, shortest,
                   longest, meanInMs, allTimes, medianVal, p90, mergeLines, out,
                   errOut, err, errAt, exitCode>>

\* the Info block; part_000 writes it line by line, with no closing blank
InfoBlock ==
    /\ pc = "info"
    /\ out' = IF variant = "index"
              THEN out \o BlockEnd("Info", InfoRows)
              ELSE out \o <<Blank("Info"), Header("Info")>> \o InfoRows
    /\ pc' = IF variant = "index" THEN "list" ELSE "authors"
    /\ UNCHANGED <<inputs, requests, responded, data, prs, f, authors, shortest,
                   longest, meanInMs, allTimes, medianVal, p90, mergeLines,
                   errOut, err, errAt, exitCode>>

\* the Pull requests block (index.js): a copy of prs sorted by open time
PrBlock ==
    /\ pc = "list"
    /\ LET r == DisplaySort(prs)
       IN  /\ f' = r.f
           /\ prs' = r.prs
           /\ out' = out \o BlockEnd("Pull requests", ListRows(r.f))
    /\ pc' = "authors"
    /\ UNCHANGED <<inputs, requests, responded, data, authors, shortest,
                   longest, meanInMs, allTimes, medianVal, p90, mergeLines,
                   errOut, err, errAt, exitCode>>

\* the Count by author block; pr.author.login throws on author: null.
\* part_000 has written the title before it counts.
AuthorBlock ==
    /\ pc = "authors"
    /\ LET head == IF variant = "index" THEN <<>>
                   ELSE <<Blank("Count by author"), Header("Count by author")>>
           o == CountAuthors(prs, 1, Len(prs), <<>>)
       IN  IF \E i \in 1..Len(prs) : prs[i].login = NoAuthor
           THEN /\ Throw("TypeError", "authors")
                /\ out' = out \o head
                /\ UNCHANGED authors
           ELSE /\ authors' = o
                /\ out' = IF variant = "index"
                          THEN out \o BlockEnd("Count by author", CountRows(o))
                          ELSE out \o head \o CountRows(o)
                /\ pc' = "extremes"
                /\ UNCHANGED <<err, errAt>>
    /\ UNCHANGED <<inputs, requests, responded, data, prs, f, shortest, longest,
                   meanInMs, allTimes, medianVal, p90, mergeLines, errOut,
                   exitCode>>

\* shortest and longest; shortest.createdAt throws on the null an empty prs
\* leaves.  index.js buffers the rows in mergeBlock, part_000 writes them,
\* after the title.
Extremes ==
    /\ pc = "extremes"
    /\ LET head == IF variant = "index" THEN <<>>
                   ELSE <<Blank("Time to merge"), Header("Time to merge")>>
           a == Shortest(prs, 1, Len(prs), <<>>)
           b == Longest(prs, 1, Len(prs), <<>>)
       IN  /\ shortest' = a
           /\ longest' = b
           /\ IF a = <<>>
              THEN /\ Throw("TypeError", "extremes")
                   /\ out' = out \o head
                   /\ UNCHANGED mergeLines
              ELSE LET rows == <<ExtremeRow("Shortest", a[1]),
                                 ExtremeRow("Longest", b[1])>>
                   IN  /\ out' = IF variant = "index" THEN out
                                 ELSE out \o head \o rows
                       /\ mergeLines' = IF variant = "index" THEN rows
                                        ELSE mergeLines
                       /\ pc' = "mean"
                       /\ UNCHANGED <<err, errAt>>
    /\ UNCHANGED <<inputs, requests, responded, data, prs, f, authors,
                   meanInMs, allTimes, medianVal, p90, errOut, exitCode>>

\* total / prs.length and its two rows; the last step of part_000
Mean ==
    /\ pc = "mean"
    /\ LET total == Total(prs, 1, Len(prs), 0)
           rows == MeanRows(total, Len(prs))
       IN  /\ meanInMs' = <<total, Len(prs)>>
           /\ out' = IF variant = "index" THEN out ELSE out \o rows
           /\ mergeLines' = IF variant = "index" THEN mergeLines \o rows
                            ELSE mergeLines
    /\ pc' = IF variant = "index" THEN "median" ELSE "done"
    /\ UNCHANGED <<inputs, requests, responded, data, prs, f, authors, shortest,
                   longest, allTimes, medianVal, p90, errOut, err, errAt,
                   exitCode>>

\* median(allTimes) (index.js)
Median ==
    /\ pc = "median"
    /\ LET r == median(AllTimes(prs))
       IN  /\ allTimes' = r.values
           /\ medianVal' = <<r.result>>
           /\ mergeLines' = Append(mergeLines,
                  Row("Time to merge", "Median",
                      <<distanceInWordsStrict(0, r.result, "auto")>>))
    /\ pc' = "p90"
    /\ UNCHANGED <<inputs, requests, responded, data, prs, f, authors, shortest,
                   longest, meanInMs, p90, out, errOut, err, errAt, exitCode>>

\* the p90 row and mergeBlock.end() (index.js)
P90 ==
    /\ pc = "p90"
    /\ LET item == percentile(90, percentileVals(prs))
           rows == Append(mergeLines,
                      Row("Time to merge", "p90",
                          <<distanceInWordsStrict(0, item.openTime, "auto"),
                            item.number>>))
       IN  /\ p90' = <<item>>
           /\ mergeLines' = rows
           /\ out' = out \o BlockEnd("Time to merge", rows)
    /\ pc' = "done"
    /\ UNCHANGED <<inputs, requests, responded, data, prs, f, authors, shortest,
                   longest, meanInMs, allTimes, medianVal, errOut, err, errAt,
                   exitCode>>

\* main() resolved: nothing is left to run, the process ends with status 0
Finish ==
    /\ pc = "done"
    /\ exitCode' = <<0>>
    /\ pc' = "exited"
    /\ UNCHANGED <<inputs, requests, responded, data, prs, f, authors, shortest,
                   longest, meanInMs, allTimes, medianVal, p90, mergeLines, out,
                   errOut, err, errAt>>

\* main().catch(console.error): the rejection is handled and printed, and
\* the process ends as after a normal return
Catch ==
    /\ pc = "catch"
    /\ errOut' = Append(errOut, err)
    /\ exitCode' = <<0>>
    /\ pc' = "exited"
    /\ UNCHANGED <<inputs, requests, responded, data, prs, f, authors, shortest,
                   longest, meanInMs, allTimes, medianVal, p90, mergeLines, out,
                   err, errAt>>

Next ==
    \/ Request
    \/ ResponseOk
    \/ ResponseFail
    \/ Filter
    \/ InfoBlock
    \/ PrBlock
    \/ AuthorBlock
    \/ Extremes
    \/ Mean
    \/ Median
    \/ P90
    \/ Finish
    \/ Catch

Spec == Init /\ [][Next]_vars
SpecAuthors == InitAuthors /\ [][Next]_vars
SpecStats == InitStats /\ [][Next]_vars
SpecBulk == InitBulk /\ [][Next]_vars

(***************************************************************************)
(* Vocabulary of the properties.                                           *)
(***************************************************************************)
\* the filter has run in this run
Filtered == responded /\ errAt # "request" /\ pc # "filter"

Blocks == {out[i].block : i \in 1..Len(out)}
AllBlocks ==
    IF variant = "index"
    THEN {"Info", "Pull requests", "Count by author", "Time to merge"}
    ELSE {"Info", "Count by author", "Time to merge"}

\* the rows written for block b, in the order written
RowsOf(b) == SelectSeq(out, LAMBDA l : l.block = b /\ l.kind = "row")

\* open duration in ms, from the two timestamps
Dur(pr) == (pr.mergedAt - pr.createdAt) * 1000

\* the k-th smallest of the values d (k in 1..Len(d)), by counting
OrderStat(d, k) ==
    CHOOSE v \in {d[i] : i \in 1..Len(d)} :
        /\ Cardinality({i \in 1..Len(d) : d[i] < v}) < k
        /\ k <= Cardinality({i \in 1..Len(d) : d[i] <= v})

Ascending(d) == \A i \in 1..(Len(d) - 1) : d[i] <= d[i + 1]

(***************************************************************************)
(* C1: when the date filter yields an empty set, the statistics stage      *)
(* fails with an EmptyDatasetError, not with an unrelated error.           *)
(***************************************************************************)
C1_EmptyDatasetError ==
    (Filtered /\ prs = <<>> /\ errAt = "extremes") => err = "EmptyDatasetError"

(***************************************************************************)
(* C2: no partial report: a run that has ended wrote either every block or *)
(* none, and a run that failed wrote none.                                 *)
(***************************************************************************)
C2_NoPartialReport ==
    /\ err # "none" => Blocks = {}
    /\ pc = "exited" => Blocks \in {{}, AllBlocks}

(***************************************************************************)
(* C3: a run that failed prints the error and ends with a non-zero status; *)
(* status 0 means the full report was rendered.                            *)
(***************************************************************************)
C3_ErrorExitsNonZero ==
    pc = "exited" =>
        /\ err # "none" => (errOut = <<err>> /\ exitCode # <<0>>)
        /\ exitCode = <<0>> => (err = "none" /\ Blocks = AllBlocks)

(***************************************************************************)
(* C4: the filtered set is exactly the subsequence, in fetch order, of the *)
(* fetched pull requests whose reference timestamp t (mergedAt in          *)
(* index.js, createdAt in part_000) has startDate < t < endDate, and the   *)
(* Total row reports its length.                                           *)
(***************************************************************************)
C4_FilterStrictWindow ==
    Filtered =>
        LET t(n) == IF variant = "index" THEN n.mergedAt * 1000
                    ELSE n.createdAt * 1000
            kept == {i \in 1..Len(data) : startDate < t(data[i])
                                           /\ t(data[i]) < endDate}
        IN  /\ Len(prs) = Cardinality(kept)
            /\ \A k \in 1..Len(prs) : \E i \in kept :
                  /\ Cardinality({j \in kept : j <= i}) = k
                  /\ prs[k] = data[i]
            /\ pc # "info" =>
                  \E i \in 1..Len(out) :
                      /\ out[i].block = "Info"
                      /\ out[i].label = "Total"
                      /\ out[i].value = <<Cardinality(kept)>>

C4_Witness ==
    /\ Filtered
    /\ pc = "exited"
    /\ prs # <<>>
    /\ LET t(n) == IF variant = "index" THEN n.mergedAt * 1000
                   ELSE n.createdAt * 1000
       IN  /\ \E i \in 1..Len(data) : t(data[i]) = startDate
           /\ \E i \in 1..Len(data) : t(data[i]) = endDate

(***************************************************************************)
(* C5: the author rows are one per distinct login, each with the number of *)
(* pull requests of that login, in order of first occurrence, whatever the *)
(* login strings are.                                                      *)
(***************************************************************************)
C5_AuthorRowsFirstSeen ==
    (Filtered /\ pc \in {"extremes", "mean", "median", "p90", "done"}) =>
        LET first == {i \in 1..Len(prs) :
                         \A j \in 1..(i - 1) : prs[j].login # prs[i].login}
            rows == RowsOf("Count by author")
        IN  /\ Len(rows) = Cardinality(first)
            /\ \A k \in 1..Len(rows) : \E i \in first :
                  /\ Cardinality({j \in first : j <= i}) = k
                  /\ rows[k].label = prs[i].login
                  /\ rows[k].value =
                       <<Cardinality({j \in 1..Len(prs) :
                                         prs[j].login = prs[i].login})>>

(***************************************************************************)
(* C6: Shortest has the minimal and Longest the maximal open duration of   *)
(* the filtered set, and among pull requests that tie the first in input   *)
(* order is the one selected and reported.                                 *)
(***************************************************************************)
C6_ExtremesFirstWins ==
    (Filtered /\ shortest # <<>>) =>
        LET rows == IF variant = "index" THEN mergeLines
                    ELSE RowsOf("Time to merge")
        IN  /\ longest # <<>>
            /\ \E i \in 1..Len(prs) :
                  /\ shortest[1] = prs[i]
                  /\ \A j \in 1..Len(prs) : Dur(prs[j]) >= Dur(prs[i])
                  /\ \A j \in 1..(i - 1) : Dur(prs[j]) > Dur(prs[i])
            /\ \E i \in 1..Len(prs) :
                  /\ longest[1] = prs[i]
                  /\ \A j \in 1..Len(prs) : Dur(prs[j]) <= Dur(prs[i])
                  /\ \A j \in 1..(i - 1) : Dur(prs[j]) < Dur(prs[i])
            /\ rows[1].label = "Shortest"
            /\ rows[1].value[2] = shortest[1].number
            /\ rows[2].label = "Longest"
            /\ rows[2].value[2] = longest[1].number

C6_Witness ==
    /\ pc = "mean"
    /\ shortest # <<>>
    /\ \E i, j \in 1..Len(prs) :
          /\ i < j
          /\ Dur(prs[i]) = Dur(shortest[1])
          /\ Dur(prs[j]) = Dur(shortest[1])
    /\ \E i, j \in 1..Len(prs) :
          /\ i < j
          /\ Dur(prs[i]) = Dur(longest[1])
          /\ Dur(prs[j]) = Dur(longest[1])
    /\ Dur(shortest[1]) < Dur(longest[1])

(***************************************************************************)
(* C7: median is the middle of the durations in ascending order for an odd *)
(* count and the average of the two middle ones for an even count,         *)
(* whatever the order of the list, and lies between the shortest and the   *)
(* longest duration.                                                       *)
(***************************************************************************)
C7_Median ==
    medianVal # <<>> =>
        LET d == [i \in 1..Len(prs) |-> Dur(prs[i])]
            n == Len(d)
            m == medianVal[1]
        IN  /\ n > 0
            /\ n % 2 = 1 => m = OrderStat(d, (n + 1) \div 2)
            /\ n % 2 = 0 =>
                  2 * m = OrderStat(d, n \div 2) + OrderStat(d, (n \div 2) + 1)
            /\ \A q \in Permutations(1..n) :
                  median([i \in 1..n |-> d[q[i]]]).result = m
            /\ Dur(shortest[1]) <= m
            /\ m <= Dur(longest[1])

C7_Witness ==
    /\ medianVal # <<>>
    /\ Len(prs) % 2 = 0
    /\ ~Ascending([i \in 1..Len(prs) |-> Dur(prs[i])])
    /\ Dur(shortest[1]) < medianVal[1]
    /\ medianVal[1] < Dur(longest[1])
    /\ \A i \in 1..Len(prs) : Dur(prs[i]) # medianVal[1]

(***************************************************************************)
(* C8: the p90 reported is a pull request of the filtered set, with its    *)
(* own number and open duration, chosen by nearest rank: at least 90% of   *)
(* the open durations are at most its duration (and fewer than 90% are     *)
(* below it), and its duration lies between the Shortest and the Longest.  *)
(***************************************************************************)
C8_P90NearestRank ==
    p90 # <<>> =>
        LET n == Len(prs)
            t == p90[1].openTime
            last == mergeLines[Len(mergeLines)]
        IN  /\ n > 0
            /\ \E i \in 1..n : /\ prs[i].number = p90[1].number
                                /\ Dur(prs[i]) = t
            /\ 10 * Cardinality({j \in 1..n : Dur(prs[j]) <= t}) >= 9 * n
            /\ 10 * Cardinality({j \in 1..n : Dur(prs[j]) < t}) < 9 * n
            /\ Dur(shortest[1]) <= t
            /\ t <= Dur(longest[1])
            /\ last.label = "p90"
            /\ last.value[2] = p90[1].number

C8_Witness ==
    /\ p90 # <<>>
    /\ pc = "exited"
    /\ p90[1].openTime < Dur(longest[1])
    /\ Len(prs) = PageSize
    /\ Dur(shortest[1]) < p90[1].openTime

(***************************************************************************)
(* C9: a run issues exactly one request; nothing is filtered, computed or  *)
(* written before its response has arrived; it is not issued again after a *)
(* failure, no second page is asked for, and at most the first page of     *)
(* pull requests enters the pipeline.                                      *)
(***************************************************************************)
C9_OneRequest ==
    /\ requests = (IF pc = "start" THEN 0 ELSE 1)
    /\ ~responded =>
          /\ data = <<>> /\ prs = <<>> /\ out = <<>> /\ authors = <<>>
          /\ shortest = <<>> /\ meanInMs = <<>> /\ medianVal = <<>> /\ p90 = <<>>
    /\ Len(data) <= PageSize
    /\ Len(prs) <= PageSize
    /\ (responded /\ errAt # "request") =>
          /\ Len(data) <= Len(server)
          /\ \A i \in 1..Len(data) : data[i] = server[i]
          /\ Len(server) <= PageSize => data = server

C9_Witness ==
    /\ pc = "exited"
    /\ err = "none"
    /\ Len(server) > PageSize
    /\ Len(prs) = PageSize
    /\ requests = 1

(***************************************************************************)
(* C10: the sort for the Pull requests listing and the sort inside median  *)
(* leave the filtered set as the filter produced it, in fetch order; the   *)
(* listing is in ascending open-duration order and the list median sorted  *)
(* is ascending.                                                           *)
(***************************************************************************)
C10_FilteredSetKept ==
    Filtered =>
        /\ prs = DateFilter(variant, data, startDate, endDate)
        /\ \A i, j \in 1..Len(prs) : i < j => prs[i].number < prs[j].number
        /\ (variant = "index" /\ pc \notin {"info", "list"}) =>
              /\ Len(f) = Len(prs)
              /\ {f[i] : i \in 1..Len(f)} = {prs[i] : i \in 1..Len(prs)}
              /\ Ascending([i \in 1..Len(f) |-> Dur(f[i])])
              /\ RowsOf("Pull requests") = ListRows(f)
        /\ medianVal # <<>> =>
              /\ Ascending(allTimes)
              /\ Len(allTimes) = Len(prs)

C10_Witness ==
    /\ pc = "exited"
    /\ medianVal # <<>>
    /\ f # prs
    /\ allTimes # [i \in 1..Len(prs) |-> Dur(prs[i])]
    /\ \E i, j \in 1..Len(prs) : i < j /\ Dur(prs[i]) = Dur(prs[j])
====
